---- MODULE Spec2Model ----
(***************************************************************************)
(* Model of src/00_prepare_base_panel_v2.py: the pipeline that builds the  *)
(* 1975-1995 province and province-by-sector panels.                       *)
(*                                                                         *)
(* The script is one linear program; the variable pc is its position and   *)
(* there is one action per block of the script.  Tables are sequences of   *)
(* records (row order is kept, as pandas keeps it).  A float is a record   *)
(* [k, n, d]: an exact rational n/d (k = "num"), NaN (k = "nan") or a      *)
(* signed infinity (k = "inf", n = +1 or -1), with the IEEE rules pandas   *)
(* follows for division by zero; rounding is not modelled.                 *)
(***************************************************************************)
EXTENDS Integers, Sequences, FiniteSets, TLC

\* ------------------------------------------------------------------ bounds
\* Largest nominal amount drawn for an input cell.
MaxVal == 2

\* ------------------------------------------------------------- float layer
NaN == [k |-> "nan", n |-> 0, d |-> 1]
PosInf == [k |-> "inf", n |-> 1, d |-> 1]
NegInf == [k |-> "inf", n |-> -1, d |-> 1]

Abs(i) == IF i < 0 THEN -i ELSE i

Sgn(i) == IF i > 0 THEN 1 ELSE IF i < 0 THEN -1 ELSE 0

RECURSIVE GCD(_, _)
GCD(a, b) == IF b = 0 THEN a ELSE GCD(b, a % b)

\* The rational num/den (den # 0) in lowest terms with a positive denominator.
Rat(num, den) ==
    LET g == GCD(Abs(num), Abs(den))
        s == IF den < 0 THEN -1 ELSE 1
    IN  [k |-> "num", n |-> s * (num \div g), d |-> s * (den \div g)]

Num(i) == [k |-> "num", n |-> i, d |-> 1]

Inf(s) == IF s < 0 THEN NegInf ELSE PosInf

\* pandas isna / notna: NaN is missing, an infinity is not.
isna(v) == v.k = "nan"
notna(v) == v.k # "nan"
IsFinite(v) == v.k = "num"

\* float addition
Add(a, b) ==
    IF isna(a) \/ isna(b) THEN NaN
    ELSE IF a.k = "inf" /\ b.k = "inf" THEN (IF a.n = b.n THEN a ELSE NaN)
    ELSE IF a.k = "inf" THEN a
    ELSE IF b.k = "inf" THEN b
    ELSE Rat(a.n * b.d + b.n * a.d, a.d * b.d)

Neg(a) == IF isna(a) THEN NaN ELSE [a EXCEPT !.n = -a.n]

Sub(a, b) == Add(a, Neg(b))

\* float multiplication: inf * 0 is NaN
Mul(a, b) ==
    IF isna(a) \/ isna(b) THEN NaN
    ELSE IF a.k = "inf" \/ b.k = "inf"
         THEN (IF a.n = 0 \/ b.n = 0 THEN NaN ELSE Inf(Sgn(a.n) * Sgn(b.n)))
    ELSE Rat(a.n * b.n, a.d * b.d)

\* float division as numpy performs it on float64 columns: x/0 is a signed
\* infinity for x # 0 and NaN for x = 0; no exception is raised.
Div(a, b) ==
    IF isna(a) \/ isna(b) THEN NaN
    ELSE IF a.k = "inf" /\ b.k = "inf" THEN NaN
    ELSE IF a.k = "inf" THEN Inf(a.n * (IF b.n < 0 THEN -1 ELSE 1))
    ELSE IF b.k = "inf" THEN Num(0)
    ELSE IF b.n = 0 THEN (IF a.n = 0 THEN NaN ELSE Inf(Sgn(a.n)))
    ELSE Rat(a.n * b.d, a.d * b.n)

\* x > 0 on floats: False for NaN
Gt0(v) == notna(v) /\ v.n > 0

\* Series.fillna(c)
fillna(v, c) == IF isna(v) THEN c ELSE v

\* Series.replace({0: np.nan})
replace0(v) == IF v.k = "num" /\ v.n = 0 THEN NaN ELSE v

\* sum() of a group: NaN cells are skipped, an empty or all-NaN group gives 0
RECURSIVE SumSkipNa(_)
SumSkipNa(vs) ==
    IF vs = <<>> THEN Num(0)
    ELSE IF isna(Head(vs)) THEN SumSkipNa(Tail(vs))
    ELSE Add(Head(vs), SumSkipNa(Tail(vs)))

\* aggfunc="first": the first non-NaN cell of a group, NaN when there is none
RECURSIVE FirstNotNa(_)
FirstNotNa(vs) ==
    IF vs = <<>> THEN NaN
    ELSE IF notna(Head(vs)) THEN Head(vs)
    ELSE FirstNotNa(Tail(vs))

\* ----------------------------------------------------------- table helpers
\* concatenation of a sequence of sequences (by halves: shallow recursion)
RECURSIVE Flatten(_)
Flatten(ss) ==
    IF Len(ss) = 0 THEN <<>>
    ELSE IF Len(ss) = 1 THEN ss[1]
    ELSE LET h == Len(ss) \div 2
         IN  Flatten(SubSeq(ss, 1, h)) \o Flatten(SubSeq(ss, h + 1, Len(ss)))

\* the elements of a finite set of integers, ascending
AscSeq(S) ==
    IF S = {} THEN <<>>
    ELSE LET lo == CHOOSE x \in S : \A y \in S : x <= y
             hi == CHOOSE x \in S : \A y \in S : y <= x
         IN  SelectSeq([i \in 1..(hi - lo + 1) |-> lo + i - 1], LAMBDA x : x \in S)

Range(s) == {s[i] : i \in DOMAIN s}

Col(rows, f) == [i \in DOMAIN rows |-> rows[i][f]]

\* the record r with the column f set to v (added when r has no such column)
Ext(r, f, v) == [c \in DOMAIN r \cup {f} |-> IF c = f THEN v ELSE r[c]]

\* r restricted to the columns fs
Proj(r, fs) == [c \in fs |-> r[c]]

SameKey(a, b, on) == \A c \in on : a[c] = b[c]

\* indices of the rows that are the first of their key, ascending
FirstIdx(rows, on) ==
    AscSeq({i \in DOMAIN rows : \A j \in 1..(i - 1) : ~SameKey(rows[j], rows[i], on)})

\* DataFrame.duplicated(on).any()
HasDup(rows, on) ==
    \E i, j \in DOMAIN rows : i < j /\ SameKey(rows[i], rows[j], on)

\* stable sort of the rows by an integer code of their key
StableSortBy(rows, Code(_)) ==
    LET codes == AscSeq({Code(rows[i]) : i \in DOMAIN rows})
    IN  Flatten([j \in DOMAIN codes |->
                    SelectSeq(rows, LAMBDA r : Code(r) = codes[j])])

\* groupby(on, sort=False)[f].agg(Agg): one row per key, in order of first
\* appearance, holding the key columns and the aggregate of column f
GroupAgg(rows, on, f, Agg(_)) ==
    LET idx == FirstIdx(rows, on)
    IN  [j \in DOMAIN idx |->
            Ext(Proj(rows[idx[j]], on), f,
                Agg(Col(SelectSeq(rows, LAMBDA r : SameKey(r, rows[idx[j]], on)), f)))]

\* mean() of a group: NaN cells are skipped, NaN when none is left
Mean(vs) ==
    LET kept == SelectSeq(vs, notna)
    IN  IF kept = <<>> THEN NaN ELSE Div(SumSkipNa(kept), Num(Len(kept)))

\* left.merge(right[on + fs], on=on, how="left"): every left row, once per
\* matching right row (in the right table's order), NaN when none matches
LeftJoinCols(left, right, on, fs) ==
    Flatten([i \in DOMAIN left |->
        LET ms == SelectSeq(right, LAMBDA m : SameKey(m, left[i], on))
        IN  IF ms = <<>>
            THEN << [c \in DOMAIN left[i] \cup fs |->
                        IF c \in fs THEN NaN ELSE left[i][c]] >>
            ELSE [j \in DOMAIN ms |->
                    [c \in DOMAIN left[i] \cup fs |->
                        IF c \in fs THEN ms[j][c] ELSE left[i][c]]]])

LeftJoin(left, right, on, f) == LeftJoinCols(left, right, on, {f})

\* --------------------------------------------------------------- geography
\* included_geo, in the order sorted(included_geo) gives
sorted_geo ==
    << "Alberta", "British Columbia", "Manitoba", "New Brunswick",
       "Newfoundland And Labrador", "Nova Scotia", "Ontario", "Quebec",
       "Saskatchewan" >>

included_geo == Range(sorted_geo)

ProvRank(p) == CHOOSE i \in DOMAIN sorted_geo : sorted_geo[i] = p

\* ---------------------------------------------------------- geography labels
\* A raw GEO label is a string; its characters are listed here, one entry per
\* label the inputs draw from.
chars_of ==
       "Alberta" :> << "A", "l", "b", "e", "r", "t", "a" >>
    @@ "British Columbia" :> << "B", "r", "i", "t", "i", "s", "h", " ", "C", "o", "l", "u", "m", "b", "i", "a" >>
    @@ "Manitoba" :> << "M", "a", "n", "i", "t", "o", "b", "a" >>
    @@ "New Brunswick" :> << "N", "e", "w", " ", "B", "r", "u", "n", "s", "w", "i", "c", "k" >>
    @@ "Newfoundland And Labrador" :> << "N", "e", "w", "f", "o", "u", "n", "d", "l", "a", "n", "d", " ", "A", "n", "d", " ", "L", "a", "b", "r", "a", "d", "o", "r" >>
    @@ "Nova Scotia" :> << "N", "o", "v", "a", " ", "S", "c", "o", "t", "i", "a" >>
    @@ "Ontario" :> << "O", "n", "t", "a", "r", "i", "o" >>
    @@ "Quebec" :> << "Q", "u", "e", "b", "e", "c" >>
    @@ "Saskatchewan" :> << "S", "a", "s", "k", "a", "t", "c", "h", "e", "w", "a", "n" >>
    @@ "alberta" :> << "a", "l", "b", "e", "r", "t", "a" >>
    @@ "ALBERTA" :> << "A", "L", "B", "E", "R", "T", "A" >>
    @@ "  Alberta " :> << " ", " ", "A", "l", "b", "e", "r", "t", "a", " " >>
    @@ "british columbia" :> << "b", "r", "i", "t", "i", "s", "h", " ", "c", "o", "l", "u", "m", "b", "i", "a" >>
    @@ "B.C." :> << "B", ".", "C", "." >>
    @@ "b.c." :> << "b", ".", "c", "." >>
    @@ "Newfoundland and Labrador" :> << "N", "e", "w", "f", "o", "u", "n", "d", "l", "a", "n", "d", " ", "a", "n", "d", " ", "L", "a", "b", "r", "a", "d", "o", "r" >>
    @@ "Nfld." :> << "N", "f", "l", "d", "." >>
    @@ "NFLD. " :> << "N", "F", "L", "D", ".", " " >>
    @@ " ontario" :> << " ", "o", "n", "t", "a", "r", "i", "o" >>
    @@ "ONTARIO" :> << "O", "N", "T", "A", "R", "I", "O" >>
    @@ "Ontario  " :> << "O", "n", "t", "a", "r", "i", "o", " ", " " >>
    @@ "Canada" :> << "C", "a", "n", "a", "d", "a" >>
    @@ "canada" :> << "c", "a", "n", "a", "d", "a" >>
    @@ "Yukon" :> << "Y", "u", "k", "o", "n" >>
    @@ "P.E.I." :> << "P", ".", "E", ".", "I", "." >>
    @@ "NWT" :> << "N", "W", "T" >>
    @@ "Prince Edward Island" :> << "P", "r", "i", "n", "c", "e", " ", "E", "d", "w", "a", "r", "d", " ", "I", "s", "l", "a", "n", "d" >>
    @@ "Alberta, Calgary" :> << "A", "l", "b", "e", "r", "t", "a", ",", " ", "C", "a", "l", "g", "a", "r", "y" >>

lower_letters ==
    << "a", "b", "c", "d", "e", "f", "g", "h", "i", "j", "k", "l", "m",
       "n", "o", "p", "q", "r", "s", "t", "u", "v", "w", "x", "y", "z" >>
upper_letters ==
    << "A", "B", "C", "D", "E", "F", "G", "H", "I", "J", "K", "L", "M",
       "N", "O", "P", "Q", "R", "S", "T", "U", "V", "W", "X", "Y", "Z" >>

IsCased(c) == c \in Range(lower_letters) \cup Range(upper_letters)

\* str.upper / str.lower on one character
to_upper(c) ==
    IF c \in Range(lower_letters)
    THEN upper_letters[CHOOSE i \in DOMAIN lower_letters : lower_letters[i] = c] ELSE c
to_lower(c) ==
    IF c \in Range(upper_letters)
    THEN lower_letters[CHOOSE i \in DOMAIN upper_letters : upper_letters[i] = c] ELSE c

\* str.strip(): leading and trailing blanks removed
strip(cs) ==
    LET solid == {i \in DOMAIN cs : cs[i] # " "}
    IN  IF solid = {} THEN <<>>
        ELSE SubSeq(cs, CHOOSE i \in solid : \A j \in solid : i <= j,
                        CHOOSE i \in solid : \A j \in solid : j <= i)

\* str.title(): a cased character is upper-cased when the character before it
\* is not cased, lower-cased otherwise
title(cs) ==
    [i \in DOMAIN cs |->
        IF ~IsCased(cs[i]) THEN cs[i]
        ELSE IF i = 1 \/ ~IsCased(cs[i - 1]) THEN to_upper(cs[i]) ELSE to_lower(cs[i])]

\* the string of a character sequence
RECURSIVE str_of(_)
str_of(cs) == IF cs = <<>> THEN "" ELSE cs[1] \o str_of(Tail(cs))

\* lines 65-70
aliases ==
    "Nfld." :> "Newfoundland And Labrador" @@ "Nwt" :> "Northwest Territories"
    @@ "B.C." :> "British Columbia" @@ "P.E.I." :> "Prince Edward Island"

\* mutant: the label is not stripped
normalize_no_strip(prov) ==
    LET t == str_of(title(chars_of[prov]))
    IN  IF t \in DOMAIN aliases THEN aliases[t] ELSE t

\* lines 63-71
normalize_province(prov) ==
    LET t == str_of(title(strip(chars_of[prov])))
    IN  IF t \in DOMAIN aliases THEN aliases[t] ELSE t

\* normalize_province, label by label
province_of == [label \in DOMAIN chars_of |-> normalize_province(label)]

\* lines 74-80: the rows whose normalised GEO is an included province, with
\* that name in the Province column
apply_geo_filter(df) ==
    SelectSeq([i \in DOMAIN df |-> Ext(df[i], "Province", province_of[df[i].GEO])],
              LAMBDA r : r.Province \in included_geo)

\* the panel's domain, range(1975, 1996)
YearLo == 1975
YearHi == 1995

YP == {"Year", "Province"}
YPS == {"Year", "Province", "Sector"}

\* sector labels in string order ("AGRIC" < "AG_FISH": 'R' < '_')
sorted_sectors ==
    << "AGRIC", "AG_FISH", "EDU", "FISH", "MANUFACT", "OIL_GAS", "REFINING", "TOTAL" >>

SectRank(s) == CHOOSE i \in DOMAIN sorted_sectors : sorted_sectors[i] = s

CodeY(r) == r.Year
CodeYP(r) == r.Year * 10 + ProvRank(r.Province)
CodeYPS(r) == (r.Year * 10 + ProvRank(r.Province)) * 10 + SectRank(r.Sector)

\* ---------------------------------------------------------------- deflation
\* real = nominal / (CPI_index / 100.0), as every deflation of the script
\* is written (lines 184, 239, 263, 271, 320)
Deflate(nominal, cpi_index) == Div(nominal, Div(cpi_index, Num(100)))

\* --------------------------------------------------------------------- CPI
\* cpi: the all-items rows, with GEO and Province, the normalised GEO
build_cpi_prov(cpi) ==
    StableSortBy(
        GroupAgg(SelectSeq(cpi, LAMBDA r : r.Province \in included_geo /\ r.Year >= 1978),
                 YP, "VALUE", Mean),
        CodeYP)

build_cpi_canada_avg(cpi) ==
    LET avg == StableSortBy(
                  GroupAgg(SelectSeq(cpi, LAMBDA r : r.GEO = "Canada"
                                                      /\ r.Year >= 1975 /\ r.Year <= 1977),
                           {"Year"}, "VALUE", Mean),
                  CodeY)
        cpi_1975 == SelectSeq(avg, LAMBDA r : r.Year = 1975)
        cpi_1974 == [i \in DOMAIN cpi_1975 |-> [cpi_1975[i] EXCEPT !.Year = 1974]]
    IN  cpi_1974 \o avg

build_cpi_final(cpi) ==
    LET canada == build_cpi_canada_avg(cpi)
        cpi_backfilled ==
            Flatten([p \in DOMAIN sorted_geo |->
                        [i \in DOMAIN canada |->
                            [Year |-> canada[i].Year, Province |-> sorted_geo[p],
                             VALUE |-> canada[i].VALUE]]])
        both == build_cpi_prov(cpi) \o cpi_backfilled
    IN  [i \in DOMAIN both |->
            [Year |-> both[i].Year, Province |-> both[i].Province,
             CPI_index |-> both[i].VALUE]]

\* ------------------------------------------------ GDP by industry (sector)
\* SECTORS: sector key -> Industry label of tables 36100380 / 36100381
SECTORS ==
    [OIL_GAS  |-> "Mining, quarrying and oil well industries",
     REFINING |-> "Refined petroleum and coal products industries",
     AGRIC    |-> "Agricultural and related services industries",
     FISH     |-> "Fishing and trapping industries",
     MANUFACT |-> "Manufacturing industries",
     EDU      |-> "Educational service industries"]

\* the order of the build_sector calls (lines 192-199)
sector_order == << "OIL_GAS", "REFINING", "AGRIC", "FISH", "MANUFACT", "EDU" >>

extract_nominal_block(df, industry, y0, y1) ==
    LET sl == SelectSeq(df, LAMBDA r : r.Prices = "Current dollars (1971 to 1984)"
                                       /\ r.Industry = industry
                                       /\ r.Year >= y0 /\ r.Year <= y1)
    IN  [i \in DOMAIN sl |->
            [Year |-> sl[i].Year, Province |-> sl[i].Province,
             GDP_Nominal |-> sl[i].VALUE_DOLLARS]]

extract_real_block(df, industry, y0, y1) ==
    LET sl == SelectSeq(df, LAMBDA r : r.Prices = "1986 constant dollars"
                                       /\ r.Industry = industry
                                       /\ r.Year >= y0 /\ r.Year <= y1)
    IN  [i \in DOMAIN sl |->
            [Year |-> sl[i].Year, Province |-> sl[i].Province,
             GDP_Real |-> sl[i].VALUE_DOLLARS]]

\* mutant: the early vintage is read up to 1984, the last year it covers
sector_pre_to_1984(g80, cpi, sector_key) ==
    LET m == LeftJoin(extract_nominal_block(g80, SECTORS[sector_key], 1975, 1984),
                      cpi, YP, "CPI_index")
    IN  [i \in DOMAIN m |->
            [Year |-> m[i].Year, Province |-> m[i].Province,
             GDP_Real |-> Deflate(m[i].GDP_Nominal, m[i].CPI_index)]]

\* the 1975-1983 partition of build_sector: the early vintage, deflated
sector_pre(g80, cpi, sector_key) ==
    LET m == LeftJoin(extract_nominal_block(g80, SECTORS[sector_key], 1975, 1983),
                      cpi, YP, "CPI_index")
    IN  [i \in DOMAIN m |->
            [Year |-> m[i].Year, Province |-> m[i].Province,
             GDP_Real |-> Deflate(m[i].GDP_Nominal, m[i].CPI_index)]]

\* the 1984-1995 partition of build_sector: the later vintage, unmodified
sector_post(g90, sector_key) == extract_real_block(g90, SECTORS[sector_key], 1984, 1995)

build_sector(g80, g90, cpi, sector_key, label) ==
    LET out == sector_pre(g80, cpi, sector_key) \o sector_post(g90, sector_key)
    IN  [i \in DOMAIN out |-> Ext(out[i], "Sector", label)]

build_gdp_sectors(g80, g90, cpi) ==
    Flatten([k \in DOMAIN sector_order |->
                build_sector(g80, g90, cpi, sector_order[k], sector_order[k])])

\* ------------------------------------------------------ GDP total (province)
\* str.contains(r"gross domestic product.*market prices", case=False) on the
\* concept labels the model draws
gdp_market_prices_mask(label) == label = "Gross domestic product at market prices"

\* str.contains("constant|chained", case=False) and str.contains("current",
\* case=False) on the price labels the model draws
is_real_label(label) == label \in {"Chained (2012) dollars", "2012 constant prices"}
is_current_label(label) == label = "Current prices"

deflate_total(rows, cpi) ==
    LET m == LeftJoin(rows, cpi, YP, "CPI_index")
    IN  [i \in DOMAIN m |->
            [Year |-> m[i].Year, Province |-> m[i].Province,
             GDP_Real_Total |-> Deflate(m[i].VALUE_DOLLARS, m[i].CPI_index)]]

as_real_total(rows) ==
    [i \in DOMAIN rows |->
        [Year |-> rows[i].Year, Province |-> rows[i].Province,
         GDP_Real_Total |-> rows[i].VALUE_DOLLARS]]

build_total_gdp_75_80(df80, cpi) ==
    LET sl == SelectSeq(df80, LAMBDA r : r.Year >= 1975 /\ r.Year <= 1980
                                         /\ gdp_market_prices_mask(r.Estimates))
    IN  deflate_total(sl, cpi)

\* sort_values(["Year","Province"]) is a stable sort (lexsort), so rows of
\* one key keep the order of the concatenation
drop_duplicates_first(rows, on) ==
    LET idx == FirstIdx(rows, on) IN [j \in DOMAIN idx |-> rows[idx[j]]]

\* mutant: the current-dollar part is concatenated first
splice_curr_first(part_real, part_curr) ==
    drop_duplicates_first(StableSortBy(part_curr \o part_real, CodeYP), YP)

splice_81_95(part_real, part_curr) ==
    drop_duplicates_first(StableSortBy(part_real \o part_curr, CodeYP), YP)

build_total_gdp_81_95(df90, has_price_col, cpi) ==
    LET sl == SelectSeq(df90, LAMBDA r : r.Year >= 1981 /\ r.Year <= 1995
                                         /\ gdp_market_prices_mask(r.Estimates))
    IN  IF has_price_col
        THEN splice_81_95(
                 as_real_total(SelectSeq(sl, LAMBDA r : is_real_label(r.Prices))),
                 deflate_total(SelectSeq(sl, LAMBDA r : is_current_label(r.Prices)), cpi))
        ELSE splice_81_95(<<>>, deflate_total(sl, cpi))

\* the 9 x 21 grid, sorted by (Year, Province), as key codes
grid_codes == {y * 10 + p : y \in YearLo..YearHi, p \in DOMAIN sorted_geo}

KeyOfCode(c) == [Year |-> c \div 10, Province |-> sorted_geo[c % 10]]

\* head(n)
head(rows, n) == SubSeq(rows, 1, IF Len(rows) < n THEN Len(rows) ELSE n)

\* lines 286-293: what the completeness check prints for a gdp_total table
expected_rows == 9 * (1995 - 1975 + 1)

gdp_total_report(total) ==
    LET miss == AscSeq(grid_codes \ {CodeYP(total[i]) : i \in DOMAIN total})
        keys == [i \in DOMAIN miss |-> KeyOfCode(miss[i])]
    IN  IF Len(total) # expected_rows /\ Len(miss) > 0
        THEN [printed |-> TRUE, count |-> Len(miss), rows |-> head(keys, 20)]
        ELSE [printed |-> FALSE, count |-> 0, rows |-> <<>>]

\* ------------------------------------------------------------- compensation
\* comp: the monthly rows of table 36100298 whose Sector is a key of
\* COMP_INDMAP, relabelled (lines 308-312)
build_comp_annual(comp, cpi) ==
    LET ann == StableSortBy(GroupAgg(comp, YPS, "Comp_Nominal", SumSkipNa), CodeYPS)
        m == LeftJoin(ann, cpi, YP, "CPI_index")
    IN  [i \in DOMAIN m |->
            Ext(m[i], "Comp_Real", Deflate(m[i].Comp_Nominal, m[i].CPI_index))]

build_comp_total(annual) ==
    LET sl == SelectSeq(annual, LAMBDA r : r.Sector = "TOTAL")
    IN  [i \in DOMAIN sl |->
            [Year |-> sl[i].Year, Province |-> sl[i].Province,
             Comp_Real_Total |-> sl[i].Comp_Real]]

build_comp_match(annual) ==
    LET sl == SelectSeq(annual,
                  LAMBDA r : r.Sector \in {"OIL_GAS", "REFINING", "MANUFACT", "EDU"})
    IN  [i \in DOMAIN sl |->
            [Year |-> sl[i].Year, Province |-> sl[i].Province, Sector |-> sl[i].Sector,
             Comp_Real_Sector |-> sl[i].Comp_Real]]

build_comp_agfish(annual) ==
    LET sl == SelectSeq(annual, LAMBDA r : r.Sector = "AG_FISH")
    IN  [i \in DOMAIN sl |->
            [Year |-> sl[i].Year, Province |-> sl[i].Province,
             Comp_AF_Real |-> sl[i].Comp_Real]]

\* ---------------------------------------------------- compensation allocator
\* mutant: np.where puts 0 where the sum is not positive
weight_pair_zero_else(ag, fi) ==
    LET sum == Add(ag, fi)
    IN  [w_ag |-> IF Gt0(sum) THEN Div(ag, sum) ELSE Num(0),
         w_fi |-> IF Gt0(sum) THEN Div(fi, sum) ELSE Num(0)]

\* lines 358-360: the weights of one row of the pivot, after fillna(0.0)
weight_pair(ag, fi) ==
    LET sum == Add(ag, fi)
    IN  [w_ag |-> IF Gt0(sum) THEN Div(ag, sum) ELSE NaN,
         w_fi |-> IF Gt0(sum) THEN Div(fi, sum) ELSE NaN]

\* the cell (key, sector) of the pivot: pivot_table(aggfunc="first") keeps the
\* first non-NaN GDP_Real of the group; NaN when the group is absent or all NaN
pivot_cell(sectors, key, sector) ==
    FirstNotNa(Col(SelectSeq(sectors, LAMBDA r : SameKey(r, key, YP) /\ r.Sector = sector),
                   "GDP_Real"))

\* lines 346-363: pivot_table drops the keys whose cells are all NaN, sorts
\* the index, and fillna(0.0) fills the cells left empty
build_w(sectors) ==
    LET agf == SelectSeq(sectors, LAMBDA r : r.Sector \in {"AGRIC", "FISH"}
                                             /\ notna(r.GDP_Real))
        keys == StableSortBy(drop_duplicates_first(agf, YP), CodeYP)
    IN  [i \in DOMAIN keys |->
            LET wp == weight_pair(fillna(pivot_cell(sectors, keys[i], "AGRIC"), Num(0)),
                                  fillna(pivot_cell(sectors, keys[i], "FISH"), Num(0)))
            IN  [Year |-> keys[i].Year, Province |-> keys[i].Province,
                 w_ag |-> wp.w_ag, w_fi |-> wp.w_fi]]

\* fallback value of lines 367-368, 0.5
Half == Rat(1, 2)

\* mutant: the fallback fills 0 instead of 0.5
fill_weight_zero(v) == fillna(v, Num(0))

fill_weight(v) == fillna(v, Half)

\* lines 366-368
build_alloc(agfish, w) ==
    LET m == LeftJoinCols(agfish, w, YP, {"w_ag", "w_fi"})
    IN  [i \in DOMAIN m |->
            [m[i] EXCEPT !.w_ag = fill_weight(m[i].w_ag), !.w_fi = fill_weight(m[i].w_fi)]]

\* lines 370-379
build_comp_part(al, sector, wcol) ==
    [i \in DOMAIN al |->
        [Year |-> al[i].Year, Province |-> al[i].Province, Sector |-> sector,
         Comp_Real_Sector |-> Mul(al[i].Comp_AF_Real, al[i][wcol])]]

build_comp_ag(al) == build_comp_part(al, "AGRIC", "w_ag")

\* mutant: the FISH share is computed with the AGRIC weight
build_comp_fi_wag(al) == build_comp_part(al, "FISH", "w_ag")

build_comp_fi(al) == build_comp_part(al, "FISH", "w_fi")

\* lines 385-391: both merged tables hold exactly the keys of comp_agfish, so
\* the outer merge matches every row
build_chk(ag, fi, agfish) ==
    LET sums == StableSortBy(GroupAgg(ag \o fi, YP, "Comp_Real_Sector", SumSkipNa), CodeYP)
        af == [i \in DOMAIN agfish |->
                 [Year |-> agfish[i].Year, Province |-> agfish[i].Province,
                  AG_FISH |-> agfish[i].Comp_AF_Real]]
        m == LeftJoin(sums, af, YP, "AG_FISH")
    IN  [i \in DOMAIN m |->
            Ext(m[i], "alloc_diff", Sub(m[i].AG_FISH, m[i].Comp_Real_Sector))]

\* ------------------------------------------- employment, population, FX
\* lines 410-412 and 419-421: when the table holds 1976 and no 1975 row at
\* all, the 1976 rows are appended again as 1975
backfill_1975(rows) ==
    IF (\E i \in DOMAIN rows : rows[i].Year = 1976)
       /\ ~(\E i \in DOMAIN rows : rows[i].Year = 1975)
    THEN LET r76 == SelectSeq(rows, LAMBDA r : r.Year = 1976)
         IN  rows \o [i \in DOMAIN r76 |-> [r76[i] EXCEPT !.Year = 1975]]
    ELSE rows

\* lfs: the monthly employment rows left by the filters of lines 399-407
build_lfs_agg(lfs) ==
    backfill_1975(StableSortBy(GroupAgg(lfs, YP, "Employment", Mean), CodeYP))

\* groupby("Year", as_index=False)[f].mean() of a Year-only series
annual_mean(rows, f) == StableSortBy(GroupAgg(rows, {"Year"}, f, Mean), CodeY)

\* np.log: an exact value where there is one, otherwise the symbol log(n/d)
np_log(v) ==
    IF isna(v) THEN NaN
    ELSE IF v.k = "inf" THEN (IF v.n > 0 THEN PosInf ELSE NaN)
    ELSE IF v.n < 0 THEN NaN
    ELSE IF v.n = 0 THEN NegInf
    ELSE IF v.n = v.d THEN Num(0)
    ELSE [k |-> "log", n |-> v.n, d |-> v.d]

\* lines 430-433 (dlog_USDCAD, a difference of logs no statement reads, is
\* left out)
build_us_cad(fx_raw) ==
    LET a == SelectSeq(annual_mean(fx_raw, "USDCAD"),
                       LAMBDA r : r.Year >= 1975 /\ r.Year <= 1995)
    IN  [i \in DOMAIN a |-> Ext(a[i], "log_USDCAD", np_log(a[i].USDCAD))]

\* --------------------------------------------------- uniqueness enforcement
\* mutant: the tables are left as they are
dedup_none(rows, on, f) == rows

\* groupby(on, as_index=False, sort=False)[f].sum()
dedup_sum(rows, on, f) == GroupAgg(rows, on, f, SumSkipNa)

\* ------------------------------------------------------------------- joins
in_domain(r) == r.Year >= YearLo /\ r.Year <= YearHi /\ r.Province \in included_geo

\* the Year-only joins shared by both panels
join_exogenous(rows, b, w, co, ch, wh, u) ==
    LeftJoin(LeftJoin(LeftJoin(LeftJoin(LeftJoin(LeftJoin(rows,
        b, {"Year"}, "Bank_Rate"),
        w, {"Year"}, "WTI_Crude_USD"),
        co, {"Year"}, "Coal_USD"),
        ch, {"Year"}, "Chemical_USD"),
        wh, {"Year"}, "Wheat_USD"),
        u, {"Year"}, "USDCAD")

\* lines 538-540 / 569-571
with_outcomes(r) ==
    [c \in DOMAIN r \cup {"GDP_pc_real_1986", "Wpw_All", "LabourShare_Total"} |->
        IF c = "GDP_pc_real_1986" THEN Div(r.GDP_Real_Total, r.Population)
        ELSE IF c = "Wpw_All" THEN Div(r.Comp_Real_Total, replace0(r.Employment))
        ELSE IF c = "LabourShare_Total"
             THEN Div(r.Comp_Real_Total, replace0(r.GDP_Real_Total))
        ELSE r[c]]

\* lines 493-548: the sector-level panel
build_panel_df(sectors, cs, t, ct, e, p, b, w, co, ch, wh, u) ==
    LET s == [i \in DOMAIN sectors |->
                 [Year |-> sectors[i].Year, Province |-> sectors[i].Province,
                  Sector |-> sectors[i].Sector,
                  GDP_Real_Sector |-> sectors[i].GDP_Real]]
        j1 == LeftJoin(s, cs, YPS, "Comp_Real_Sector")
        j2 == LeftJoin(j1, t, YP, "GDP_Real_Total")
        j3 == LeftJoin(j2, ct, YP, "Comp_Real_Total")
        j4 == LeftJoin(j3, e, YP, "Employment")
        j5 == LeftJoin(j4, p, YP, "Population")
        j6 == join_exogenous(j5, b, w, co, ch, wh, u)
        j7 == LeftJoin(j6, u, {"Year"}, "log_USDCAD")
        locked == SelectSeq(j7, in_domain)
    IN  [i \in DOMAIN locked |->
            LET r == with_outcomes(locked[i])
                li == Div(r.Comp_Real_Sector, replace0(r.GDP_Real_Sector))
            IN  [c \in DOMAIN r \cup {"WTI_CAD", "Coal_CAD", "Chem_CAD", "Wheat_CAD",
                                      "Sector_LabourIntensity", "MANUF_LabourIntensity"} |->
                    IF c = "WTI_CAD" THEN Mul(r.WTI_Crude_USD, r.USDCAD)
                    ELSE IF c = "Coal_CAD" THEN Mul(r.Coal_USD, r.USDCAD)
                    ELSE IF c = "Chem_CAD" THEN Mul(r.Chemical_USD, r.USDCAD)
                    ELSE IF c = "Wheat_CAD" THEN Mul(r.Wheat_USD, r.USDCAD)
                    ELSE IF c = "Sector_LabourIntensity" THEN li
                    ELSE IF c = "MANUF_LabourIntensity"
                         THEN (IF r.Sector = "MANUFACT" THEN li ELSE NaN)
                    ELSE r[c]]]

\* lines 551-577: the province-level panel, anchored on gdp_total
build_prov_df(t, ct, e, p, b, w, co, ch, wh, u) ==
    LET j1 == LeftJoin(t, ct, YP, "Comp_Real_Total")
        j2 == LeftJoin(j1, e, YP, "Employment")
        j3 == LeftJoin(j2, p, YP, "Population")
        j4 == join_exogenous(j3, b, w, co, ch, wh, u)
        j5 == LeftJoin(j4, u, {"Year"}, "log_USDCAD")
        locked == SelectSeq(j5, in_domain)
    IN  [i \in DOMAIN locked |->
            LET r == with_outcomes(locked[i])
            IN  [c \in DOMAIN r \cup {"log_GDP_pc_real_1986", "log_Wpw_All",
                                      "log_LabourShare_Total"} |->
                    IF c = "log_GDP_pc_real_1986" THEN np_log(replace0(r.GDP_pc_real_1986))
                    ELSE IF c = "log_Wpw_All" THEN np_log(replace0(r.Wpw_All))
                    ELSE IF c = "log_LabourShare_Total"
                         THEN np_log(replace0(r.LabourShare_Total))
                    ELSE r[c]]]

\* ------------------------------------------------- event-study scaffolding
\* lines 580-590
TREAT_AB == {"Alberta"}
TREAT_PRAIRIES == {"Alberta", "Saskatchewan", "Manitoba"}
TREAT_MANU_CORE == {"Ontario", "Quebec"}
TREAT_NFLD == {"Newfoundland And Labrador"}

EVENTS ==
    << [name |-> "NEP", year |-> 1980, treated |-> TREAT_AB, window |-> 6],
       [name |-> "CROW", year |-> 1984, treated |-> TREAT_PRAIRIES, window |-> 6],
       [name |-> "CUSFTA", year |-> 1989, treated |-> TREAT_MANU_CORE, window |-> 6],
       [name |-> "COD", year |-> 1992, treated |-> TREAT_NFLD, window |-> 4] >>

\* f"{name}_bin_{'m' if k<0 else 'p'}{abs(k)}"
bin_col(name, k) == name \o "_bin_" \o (IF k < 0 THEN "m" ELSE "p") \o ToString(Abs(k))

\* mutant: the baseline offset -1 is not skipped
bin_offsets_all(window) == (0 - window)..window

\* the offsets the loop of lines 596-600 does not skip
bin_offsets(window) == {k \in (0 - window)..window : k # -1}

\* add_event_vars on one row.  The loop assigns the columns in increasing k,
\* so a column named by several offsets would keep the last one.
add_event_vars(r, name, year, treated, window) ==
    LET is_treated == IF r.Province \in treated THEN 1 ELSE 0
        rel == IF is_treated = 1 THEN Num(r.Year - year) ELSE NaN
        ks == bin_offsets(window)
        col == [k \in ks |-> bin_col(name, k)]
        k0 == r.Year - year
        hit(c) == /\ is_treated = 1 /\ k0 \in ks /\ col[k0] = c
                  /\ \A j \in ks : j > k0 => col[j] # c
        c_treated == name \o "_treated"
        c_post == name \o "_post"
        c_rel == name \o "_rel"
        fresh == [c \in {c_treated, c_post, c_rel} \cup Range(col) |->
                    IF c = c_treated THEN is_treated
                    ELSE IF c = c_post
                         THEN (IF r.Year >= year /\ is_treated = 1 THEN 1 ELSE 0)
                    ELSE IF c = c_rel THEN rel
                    ELSE IF hit(c) THEN 1 ELSE 0]
    IN  fresh @@ r

RECURSIVE add_events_row(_, _)
add_events_row(r, n) ==
    IF n = 0 THEN r
    ELSE add_event_vars(add_events_row(r, n - 1), EVENTS[n].name, EVENTS[n].year,
                        EVENTS[n].treated, EVENTS[n].window)

\* lines 603-608: every event, in the order of EVENTS, on every row
add_all_events(rows) == [i \in DOMAIN rows |-> add_events_row(rows[i], Len(EVENTS))]

\* ------------------------------------------------------------- diagnostics
\* lines 747-753: the rows of the full grid whose GDP_Real_Total or
\* Population is missing in prov_df, sorted by (Province, Year).  The template
\* is walked in (Province, Year) order, which is the order the stable
\* sort_values(["Province","Year"]) gives the merged rows.
build_miss(prov) ==
    LET tmpl == Flatten([p \in DOMAIN sorted_geo |->
                    [k \in 1..(YearHi - YearLo + 1) |->
                        [Year |-> YearLo + k - 1, Province |-> sorted_geo[p]]]])
        m == LeftJoinCols(tmpl, prov, YP, {"GDP_Real_Total", "Population"})
    IN  SelectSeq(m, LAMBDA r : isna(r.GDP_Real_Total) \/ isna(r.Population))

\* mutant: only the wage assertion is made
asserts_only_wpw(prov) == \A i \in DOMAIN prov : Gt0(prov[i].Wpw_All)

\* lines 759-760
asserts_hold(prov) ==
    /\ \A i \in DOMAIN prov : notna(prov[i].GDP_pc_real_1986)
    /\ \A i \in DOMAIN prov : Gt0(prov[i].Wpw_All)

\* ------------------------------------------------------------------- state
VARIABLES
    files,         \* the province-keyed CSV files: their rows, with the raw GEO label
    pc,            \* the block of the script that runs next
    error,         \* the exception that ended the run, "" when none
    has_cols,      \* which columns _find_col finds on the two total-GDP tables
    cpi, cpi_final,
    br, wti, coal, chem, wheat, fx_raw, us_cad,
    gdp80, gdp90, gdp_sectors,
    totgdp80, totgdp90, gdp_total, gdp_report,
    comp, comp_annual, comp_total, comp_agfish, w, alloc, comp_sect, chk,
    lfs, lfs_agg, pop,
    panel_df, prov_df,
    panel_df_sector,   \* panel_df with the event columns (line 606)
    written,       \* the panel artifacts written so far
    miss_report    \* what lines 754-756 print

inputs == << files, has_cols, cpi, gdp80, gdp90, totgdp80, totgdp90, comp, lfs, fx_raw >>
exo == << br, wti, coal, chem, wheat >>
gdp_vars == << gdp_sectors, gdp_total, gdp_report >>
comp_vars == << comp_annual, comp_total, comp_agfish, w, alloc, comp_sect, chk >>
out_vars == << panel_df, prov_df, panel_df_sector, written, miss_report >>

vars == << pc, error, inputs, exo, cpi_final, us_cad, gdp_vars, comp_vars,
           lfs_agg, pop, out_vars >>

\* ------------------------------------------------------------------ inputs
\* The input tables are the files as the script holds them after its row
\* filters.  Every run has "good" keys, for which each table holds one
\* well-formed row, and a few focus rows drawn from the sets below.
CodeOf(y, p) == y * 10 + ProvRank(p)

Ctx == CodeOf(1984, "Ontario")

GdpConcept == "Gross domestic product at market prices"
OtherConcept == "Final consumption expenditure"
Current80 == "Current dollars (1971 to 1984)"
Constant86 == "1986 constant dollars"

SectRow(y, p, prices, sector_key, v) ==
    [Year |-> y, Province |-> p, Prices |-> prices, Industry |-> SECTORS[sector_key],
     VALUE_DOLLARS |-> v]

\* the rows of one sector at one key: vintage "80" is table 36100380 in
\* current dollars, "90" is table 36100381 in 1986 constant dollars
SectRows(y, p, vint, in, sector_key, vs) ==
    IF vint = in
    THEN [i \in DOMAIN vs |->
            SectRow(y, p, IF vint = "80" THEN Current80 ELSE Constant86, sector_key, vs[i])]
    ELSE <<>>

Tot80Row(y, p, concept, v) ==
    [Year |-> y, Province |-> p, Estimates |-> concept, VALUE_DOLLARS |-> v]

Tot90Row(y, p, concept, prices, v) ==
    [Year |-> y, Province |-> p, Estimates |-> concept, Prices |-> prices,
     VALUE_DOLLARS |-> v]

CompRow(y, p, sector, v) ==
    [Year |-> y, Province |-> p, Sector |-> sector, Comp_Nominal |-> v]

CpiRows(y, p, vs) == [i \in DOMAIN vs |-> [Year |-> y, Province |-> p, VALUE |-> vs[i]]]

GoodYears(goods) == AscSeq({goods[i] \div 10 : i \in DOMAIN goods})

\* One well-formed row per good key in every table; the keys in focus get no
\* CPI, sector-GDP and total-GDP row here, and only the keys in people get an
\* employment and a population row.
BaseInputs(goods, focus, people) ==
    LET K(i) == KeyOfCode(goods[i])
        ys == GoodYears(goods)
        early == SelectSeq(ys, LAMBDA y : y <= 1977)
        Exo(f) == [i \in DOMAIN ys |-> Ext([Year |-> ys[i]], f, Num(1))]
    IN  [has_cols |-> [concept80 |-> TRUE, concept90 |-> TRUE, prices90 |-> TRUE],
         cpi |-> [i \in DOMAIN early |->
                     [Year |-> early[i], Province |-> "Canada", VALUE |-> Num(100)]]
                 \o Flatten([i \in DOMAIN goods |->
                     IF K(i).Year >= 1978 /\ goods[i] \notin focus
                     THEN CpiRows(K(i).Year, K(i).Province, <<Num(100)>>) ELSE <<>>]),
         gdp80 |-> Flatten([i \in DOMAIN goods |->
                     IF K(i).Year <= 1983 /\ goods[i] \notin focus
                     THEN <<SectRow(K(i).Year, K(i).Province, Current80, "OIL_GAS", Num(2))>>
                     ELSE <<>>]),
         gdp90 |-> Flatten([i \in DOMAIN goods |->
                     IF K(i).Year >= 1984 /\ goods[i] \notin focus
                     THEN <<SectRow(K(i).Year, K(i).Province, Constant86, "OIL_GAS", Num(2))>>
                     ELSE <<>>]),
         totgdp80 |-> Flatten([i \in DOMAIN goods |->
                     IF K(i).Year <= 1980 /\ goods[i] \notin focus
                     THEN <<Tot80Row(K(i).Year, K(i).Province, GdpConcept, Num(4))>>
                     ELSE <<>>]),
         totgdp90 |-> Flatten([i \in DOMAIN goods |->
                     IF K(i).Year >= 1981 /\ goods[i] \notin focus
                     THEN <<Tot90Row(K(i).Year, K(i).Province, GdpConcept,
                                     "2012 constant prices", Num(4))>>
                     ELSE <<>>]),
         comp |-> Flatten([i \in DOMAIN goods |->
                     << CompRow(K(i).Year, K(i).Province, "TOTAL", Num(4)),
                        CompRow(K(i).Year, K(i).Province, "OIL_GAS", Num(1)) >>]),
         lfs |-> [i \in DOMAIN people |->
                     [Year |-> KeyOfCode(people[i]).Year,
                      Province |-> KeyOfCode(people[i]).Province, Employment |-> Num(2)]],
         pop |-> [i \in DOMAIN people |->
                     [Year |-> KeyOfCode(people[i]).Year,
                      Province |-> KeyOfCode(people[i]).Province, Population |-> Num(2)]],
         br |-> Exo("Bank_Rate"), wti |-> Exo("WTI_Crude_USD"), coal |-> Exo("Coal_USD"),
         chem |-> Exo("Chemical_USD"), wheat |-> Exo("Wheat_USD"), fx_raw |-> Exo("USDCAD")]

Vals == {Num(i) : i \in 0..MaxVal}

\* the rows a file holds for one cell: none, one (NaN or a number)
CellChoices == {<<>>, <<NaN>>} \cup {<<v>> : v \in Vals}

\* the provincial CPI rows of the focus key
CpiChoices == {<<>>, <<Num(0)>>, <<Num(50)>>, <<Num(100)>>}

\* (a) compensation allocator: the AGRIC and FISH GDP rows, the AG_FISH
\* compensation rows and the CPI of (fy, Alberta); (1984, Ontario) has AGRIC
\* 3, FISH 1 and AG_FISH compensation 4
InputsAlloc(fy, vint, c, ag, fi, afc) ==
    LET b == BaseInputs(<<Ctx>>, {}, <<Ctx>>)
    IN  [b EXCEPT
          !.cpi = @ \o CpiRows(fy, "Alberta", c),
          !.gdp80 = @ \o SectRows(fy, "Alberta", vint, "80", "AGRIC", ag)
                      \o SectRows(fy, "Alberta", vint, "80", "FISH", fi),
          !.gdp90 = @ \o << SectRow(1984, "Ontario", Constant86, "AGRIC", Num(3)),
                            SectRow(1984, "Ontario", Constant86, "FISH", Num(1)) >>
                      \o SectRows(fy, "Alberta", vint, "90", "AGRIC", ag)
                      \o SectRows(fy, "Alberta", vint, "90", "FISH", fi),
          !.comp = @ \o << CompRow(1984, "Ontario", "AG_FISH", Num(4)) >>
                     \o [i \in DOMAIN afc |-> CompRow(fy, "Alberta", "AG_FISH", afc[i])]]

AllocInputs ==
    { InputsAlloc(fy, vint, c, ag, fi, afc) :
        fy \in {1983, 1984}, vint \in {"80", "90"}, c \in CpiChoices,
        ag \in CellChoices \cup {<<Num(1), Num(2)>>}, fi \in CellChoices,
        afc \in {<<>>, <<Num(1), Num(1)>>} \cup {<<v>> : v \in Vals} }

\* (b) total GDP of (ty, Alberta) in table 36100324, which has no price column
InputsTotal80(ty, c, rows, concept) ==
    LET b == BaseInputs(<<Ctx, CodeOf(ty, "Alberta")>>, {CodeOf(ty, "Alberta")},
                        <<Ctx, CodeOf(ty, "Alberta")>>)
    IN  [b EXCEPT
          !.has_cols.concept80 = concept,
          !.cpi = @ \o CpiRows(ty, "Alberta", c),
          !.totgdp80 = << Tot80Row(ty, "Alberta", OtherConcept, Num(1)) >>
                       \o [i \in DOMAIN rows |-> Tot80Row(ty, "Alberta", GdpConcept, rows[i])]]

\* (c) total GDP of (ty, Alberta) in table 36100221: constant or chained rows
\* and current rows, in either file order
InputsTotal90(ty, c, treal, tcur, cur_first, concept, prices) ==
    LET b == BaseInputs(<<Ctx, CodeOf(ty, "Alberta")>>, {CodeOf(ty, "Alberta")},
                        <<Ctx, CodeOf(ty, "Alberta")>>)
        rr == [i \in DOMAIN treal |->
                  Tot90Row(ty, "Alberta", GdpConcept, "Chained (2012) dollars", treal[i])]
        cr == [i \in DOMAIN tcur |->
                  Tot90Row(ty, "Alberta", GdpConcept, "Current prices", tcur[i])]
    IN  [b EXCEPT
          !.has_cols.concept90 = concept,
          !.has_cols.prices90 = prices,
          !.cpi = @ \o CpiRows(ty, "Alberta", c),
          !.totgdp90 = @ \o << Tot90Row(ty, "Alberta", OtherConcept, "Current prices", Num(1)) >>
                         \o (IF cur_first THEN cr \o rr ELSE rr \o cr)]

TotalInputs ==
    { InputsTotal80(ty, c, rows, concept) :
        ty \in {1980, 1981}, c \in CpiChoices,
        rows \in CellChoices \cup {<<Num(1), Num(2)>>}, concept \in BOOLEAN }
    \cup
    { InputsTotal90(ty, c, treal, tcur, cur_first, concept, prices) :
        ty \in {1980, 1981}, c \in CpiChoices,
        treal \in {<<>>, <<NaN>>, <<Num(3)>>}, tcur \in {<<>>} \cup {<<v>> : v \in Vals},
        cur_first \in BOOLEAN, concept \in BOOLEAN, prices \in BOOLEAN }

\* (d) the full 9 x 21 grid, less the keys in drop, with a second total-GDP
\* row for the keys in dup
GridSeq == AscSeq(grid_codes)

InputsGrid(drop, dup) ==
    LET b == BaseInputs(GridSeq, drop, GridSeq)
        d == AscSeq(dup)
    IN  [b EXCEPT
          !.totgdp80 = @ \o [i \in DOMAIN d |->
                                Tot80Row(KeyOfCode(d[i]).Year, KeyOfCode(d[i]).Province,
                                         GdpConcept, Num(4))]]

AlbertaYears == {CodeOf(y, "Alberta") : y \in YearLo..YearHi}

GridInputs ==
    { InputsGrid(drop, dup) :
        drop \in { {}, {CodeOf(1975, "Alberta")},
                   {CodeOf(1975, "Alberta"), CodeOf(1981, "Alberta")}, AlbertaYears },
        dup \in { {}, {CodeOf(1976, "Ontario")},
                  {CodeOf(1976, "Ontario"), CodeOf(1977, "Ontario")} } }

\* (e) employment and population rows of three keys that have GDP and
\* compensation rows
JoinKeys == << CodeOf(1975, "Alberta"), CodeOf(1976, "Alberta"), CodeOf(1976, "Ontario") >>

InputsJoin(emp, popu) ==
    LET b == BaseInputs(<<Ctx>> \o JoinKeys, {}, <<Ctx>>)
        K(j) == KeyOfCode(JoinKeys[j])
    IN  [b EXCEPT
          !.lfs = @ \o Flatten([j \in DOMAIN JoinKeys |->
                      [i \in DOMAIN emp[j] |->
                          [Year |-> K(j).Year, Province |-> K(j).Province,
                           Employment |-> emp[j][i]]]]),
          !.pop = @ \o Flatten([j \in DOMAIN JoinKeys |->
                      [i \in DOMAIN popu[j] |->
                          [Year |-> K(j).Year, Province |-> K(j).Province,
                           Population |-> popu[j][i]]]])]

JoinInputs ==
    { InputsJoin(emp, popu) :
        emp \in [DOMAIN JoinKeys -> {<<>>, <<Num(0)>>, <<Num(1)>>}],
        popu \in [DOMAIN JoinKeys -> {<<>>, <<NaN>>, <<Num(1)>>, <<Num(1), Num(2)>>}] }

\* (f) the rows of one Year-only series for 1984
exo_cols ==
    << "Bank_Rate", "WTI_Crude_USD", "Coal_USD", "Chemical_USD", "Wheat_USD", "USDCAD" >>
exo_tables == << "br", "wti", "coal", "chem", "wheat", "fx_raw" >>

InputsExo(k, vs) ==
    LET b == BaseInputs(<<Ctx>>, {}, <<Ctx>>)
    IN  [b EXCEPT
          ![exo_tables[k]] = [i \in DOMAIN vs |-> Ext([Year |-> 1984], exo_cols[k], vs[i])]]

ExoInputs ==
    { InputsExo(k, vs) :
        k \in DOMAIN exo_tables, vs \in {<<>>, <<NaN>>, <<Num(0)>>, <<Num(1), Num(2)>>} }

Inputs == AllocInputs \cup TotalInputs \cup GridInputs \cup JoinInputs \cup ExoInputs

\* (g) raw labels and overlapping vintages: four keys whose rows carry their
\* province under another spelling, a row of another geography in every
\* table, a 1984 row in the early sector vintage and a 1983 row in the later
GeoKeys ==
    << CodeOf(1983, "Alberta"), CodeOf(1984, "British Columbia"),
       CodeOf(1984, "Newfoundland And Labrador"), Ctx >>

geo_variants ==
    "Alberta" :> << "alberta", "ALBERTA", "  Alberta " >>
    @@ "British Columbia" :> << "british columbia", "B.C.", "b.c." >>
    @@ "Newfoundland And Labrador" :> << "Newfoundland and Labrador", "Nfld.", "NFLD. " >>
    @@ "Ontario" :> << " ontario", "ONTARIO", "Ontario  " >>

ForeignLabels ==
    { "Canada", "canada", "Yukon", "P.E.I.", "NWT", "Prince Edward Island",
      "Alberta, Calgary" }

geo_tables == { "cpi", "gdp80", "gdp90", "totgdp80", "totgdp90", "comp", "lfs", "pop" }

\* style 0 is the province name itself
geo_label(p, style) ==
    IF style = 0 \/ p \notin DOMAIN geo_variants THEN p ELSE geo_variants[p][style]

\* a table as its file holds it: the GEO column in place of Province
as_file(rows, style) ==
    [i \in DOMAIN rows |->
        [c \in (DOMAIN rows[i] \ {"Province"}) \cup {"GEO"} |->
            IF c = "GEO" THEN geo_label(rows[i].Province, style) ELSE rows[i][c]]]

\* the first row of the table again, under another geography
foreign_row(rows, label) ==
    IF label = "" \/ rows = <<>> THEN <<>> ELSE << [rows[1] EXCEPT !.GEO = label] >>

files_of(in, style, foreign) ==
    [t \in DOMAIN in |->
        IF t \in geo_tables
        THEN foreign_row(as_file(in[t], style), foreign) \o as_file(in[t], style)
        ELSE in[t]]

GeoBase ==
    LET b == BaseInputs(GeoKeys, {}, GeoKeys)
    IN  [b EXCEPT
          !.gdp80 = @ \o << SectRow(1984, "Ontario", Current80, "OIL_GAS", Num(1)) >>,
          !.gdp90 = @ \o << SectRow(1983, "Alberta", Constant86, "OIL_GAS", Num(1)) >>]

GeoFiles == { files_of(GeoBase, style, foreign) : style \in 0..3, foreign \in ForeignLabels }

Files == { files_of(in, 0, "") : in \in Inputs } \cup GeoFiles

\* line 98: cpi keeps every row, with its normalised label
add_province(rows) ==
    [i \in DOMAIN rows |-> Ext(rows[i], "Province", province_of[rows[i].GEO])]

\* apply_geo_filter on a file, keeping the columns the later blocks read
read_geo(rows) ==
    LET kept == apply_geo_filter(rows)
    IN  [i \in DOMAIN kept |-> Proj(kept[i], DOMAIN kept[i] \ {"GEO"})]

Init ==
    \E in \in Files :
        /\ files = Proj(in, geo_tables)
        /\ pc = "cpi"
        /\ error = ""
        /\ has_cols = in.has_cols
        /\ cpi = add_province(in.cpi)
        /\ br = in.br /\ wti = in.wti /\ coal = in.coal
        /\ chem = in.chem /\ wheat = in.wheat /\ fx_raw = in.fx_raw
        /\ gdp80 = read_geo(in.gdp80) /\ gdp90 = read_geo(in.gdp90)
        /\ totgdp80 = read_geo(in.totgdp80) /\ totgdp90 = read_geo(in.totgdp90)
        /\ comp = read_geo(in.comp) /\ lfs = read_geo(in.lfs) /\ pop = read_geo(in.pop)
        /\ cpi_final = <<>> /\ us_cad = <<>>
        /\ gdp_sectors = <<>> /\ gdp_total = <<>>
        /\ gdp_report = [printed |-> FALSE, count |-> 0, rows |-> <<>>]
        /\ comp_annual = <<>> /\ comp_total = <<>> /\ comp_agfish = <<>> /\ w = <<>> /\ alloc = <<>>
        /\ comp_sect = <<>> /\ chk = <<>>
        /\ lfs_agg = <<>>
        /\ panel_df = <<>> /\ prov_df = <<>> /\ panel_df_sector = <<>>
        /\ written = {}
        /\ miss_report = [printed |-> FALSE, count |-> 0, rows |-> <<>>]

\* ----------------------------------------------------------------- actions
\* lines 94-114
LoadCPI ==
    /\ pc = "cpi"
    /\ cpi_final' = build_cpi_final(cpi)
    /\ pc' = "exo"
    /\ UNCHANGED << error, inputs, exo, us_cad, gdp_vars, comp_vars, lfs_agg, pop, out_vars >>

\* lines 116-141
LoadExogenous ==
    /\ pc = "exo"
    /\ br' = annual_mean(br, "Bank_Rate")
    /\ wti' = annual_mean(wti, "WTI_Crude_USD")
    /\ coal' = annual_mean(coal, "Coal_USD")
    /\ chem' = annual_mean(chem, "Chemical_USD")
    /\ wheat' = annual_mean(wheat, "Wheat_USD")
    /\ pc' = "gdp_sector"
    /\ UNCHANGED << error, inputs, cpi_final, us_cad, gdp_vars, comp_vars, lfs_agg, pop,
                    out_vars >>

\* lines 143-199
BuildSectorGDP ==
    /\ pc = "gdp_sector"
    /\ gdp_sectors' = build_gdp_sectors(gdp80, gdp90, cpi_final)
    /\ pc' = "gdp_total"
    /\ UNCHANGED << error, inputs, exo, cpi_final, us_cad, gdp_total, gdp_report, comp_vars,
                    lfs_agg, pop, out_vars >>

\* lines 201-293: a table without a concept column raises ValueError
total_gdp_raises == ~has_cols.concept80 \/ ~has_cols.concept90

build_gdp_total(df80, df90, has_price_col, cpi_tbl) ==
    build_total_gdp_75_80(df80, cpi_tbl) \o build_total_gdp_81_95(df90, has_price_col, cpi_tbl)

BuildTotalGDP ==
    /\ pc = "gdp_total"
    /\ IF total_gdp_raises
       THEN /\ pc' = "failed"
            /\ error' = "ValueError"
            /\ UNCHANGED << gdp_total, gdp_report >>
       ELSE /\ gdp_total' = build_gdp_total(totgdp80, totgdp90, has_cols.prices90, cpi_final)
            /\ gdp_report' = gdp_total_report(gdp_total')
            /\ pc' = "comp"
            /\ UNCHANGED error
    /\ UNCHANGED << inputs, exo, cpi_final, us_cad, gdp_sectors, comp_vars, lfs_agg, pop,
                    out_vars >>

\* lines 295-343
BuildCompensation ==
    /\ pc = "comp"
    /\ comp_annual' = build_comp_annual(comp, cpi_final)
    /\ comp_total' = build_comp_total(comp_annual')
    /\ comp_agfish' = build_comp_agfish(comp_annual')
    /\ pc' = "alloc"
    /\ UNCHANGED << error, inputs, exo, cpi_final, us_cad, gdp_vars, w, alloc, comp_sect, chk,
                    lfs_agg, pop, out_vars >>

\* lines 345-393
AllocateAgFish ==
    /\ pc = "alloc"
    /\ w' = build_w(gdp_sectors)
    /\ alloc' = build_alloc(comp_agfish, w')
    /\ comp_sect' = build_comp_match(comp_annual) \o build_comp_ag(alloc')
                    \o build_comp_fi(alloc')
    /\ chk' = build_chk(build_comp_ag(alloc'), build_comp_fi(alloc'), comp_agfish)
    /\ pc' = "emp_pop"
    /\ UNCHANGED << error, inputs, exo, cpi_final, us_cad, gdp_vars, comp_annual, comp_total,
                    comp_agfish, lfs_agg, pop, out_vars >>

\* lines 395-434
LoadEmploymentPopulationFX ==
    /\ pc = "emp_pop"
    /\ lfs_agg' = build_lfs_agg(lfs)
    /\ pop' = backfill_1975(pop)
    /\ us_cad' = build_us_cad(fx_raw)
    /\ pc' = "dedup"
    /\ UNCHANGED << error, inputs, exo, cpi_final, gdp_vars, comp_vars, out_vars >>

\* lines 446-471: the four groupby-sums, then the four assertions
EnforceUniqueness ==
    /\ pc = "dedup"
    /\ gdp_sectors' = dedup_sum(gdp_sectors, YPS, "GDP_Real")
    /\ comp_sect' = dedup_sum(comp_sect, YPS, "Comp_Real_Sector")
    /\ gdp_total' = dedup_sum(gdp_total, YP, "GDP_Real_Total")
    /\ comp_total' = dedup_sum(comp_total, YP, "Comp_Real_Total")
    /\ IF HasDup(gdp_sectors', YPS) \/ HasDup(comp_sect', YPS)
          \/ HasDup(gdp_total', YP) \/ HasDup(comp_total', YP)
       THEN pc' = "failed" /\ error' = "AssertionError"
       ELSE pc' = "join" /\ UNCHANGED error
    /\ UNCHANGED << inputs, exo, cpi_final, us_cad, gdp_report, comp_annual, comp_agfish, w,
                    alloc, chk, lfs_agg, pop, out_vars >>

\* lines 473-577
JoinPanels ==
    /\ pc = "join"
    /\ panel_df' = build_panel_df(gdp_sectors, comp_sect, gdp_total, comp_total, lfs_agg, pop,
                                  br, wti, coal, chem, wheat, us_cad)
    /\ prov_df' = build_prov_df(gdp_total, comp_total, lfs_agg, pop,
                                br, wti, coal, chem, wheat, us_cad)
    /\ pc' = "events"
    /\ UNCHANGED << error, inputs, exo, cpi_final, us_cad, gdp_vars, comp_vars, lfs_agg, pop,
                    panel_df_sector, written, miss_report >>

\* lines 579-608
AddEventVars ==
    /\ pc = "events"
    /\ prov_df' = add_all_events(prov_df)
    /\ panel_df_sector' = add_all_events(panel_df)
    /\ pc' = "save"
    /\ UNCHANGED << error, inputs, exo, cpi_final, us_cad, gdp_vars, comp_vars, lfs_agg, pop,
                    panel_df, written, miss_report >>

\* lines 610-614
SavePanels ==
    /\ pc = "save"
    /\ written' = {"nep_panel_province_1975_1995.csv", "nep_panel_sector_1975_1995.csv"}
    /\ pc' = "diag"
    /\ UNCHANGED << error, inputs, exo, cpi_final, us_cad, gdp_vars, comp_vars, lfs_agg, pop,
                    panel_df, prov_df, panel_df_sector, miss_report >>

\* lines 746-756: the count, and the first 20 rows when there are any
build_miss_report(prov) ==
    LET miss == build_miss(prov)
    IN  [printed |-> TRUE, count |-> Len(miss),
         rows |-> [i \in DOMAIN head(miss, 20) |-> Proj(miss[i], YP)]]

\* lines 735-760: the report, then the two assertions
Diagnostics ==
    /\ pc = "diag"
    /\ miss_report' = build_miss_report(prov_df)
    /\ IF asserts_hold(prov_df)
       THEN pc' = "done" /\ UNCHANGED error
       ELSE pc' = "failed" /\ error' = "AssertionError"
    /\ UNCHANGED << inputs, exo, cpi_final, us_cad, gdp_vars, comp_vars, lfs_agg, pop,
                    panel_df, prov_df, panel_df_sector, written >>

Next ==
    \/ LoadCPI
    \/ LoadExogenous
    \/ BuildSectorGDP
    \/ BuildTotalGDP
    \/ BuildCompensation
    \/ AllocateAgFish
    \/ LoadEmploymentPopulationFX
    \/ EnforceUniqueness
    \/ JoinPanels
    \/ AddEventVars
    \/ SavePanels
    \/ Diagnostics

Spec == Init /\ [][Next]_vars

\* ================================================================== claims
\* the blocks that have run
AfterAlloc == pc \in {"emp_pop", "dedup", "join", "events", "save", "diag", "done"}
              \/ (pc = "failed" /\ error = "AssertionError")
AfterDedup == pc \in {"join", "events", "save", "diag", "done"}
              \/ (pc = "failed" /\ error = "AssertionError")

\* the real GDP figure the weights read for a sector of a key: the first
\* non-missing GDP_Real among its rows of gdp_sectors, NaN when it has none
GdpFigure(key, sector) ==
    LET vs == SelectSeq(gdp_sectors, LAMBDA r : r.Year = key.Year /\ r.Province = key.Province
                                                /\ r.Sector = sector /\ notna(r.GDP_Real))
    IN  IF vs = <<>> THEN NaN ELSE vs[1].GDP_Real

IsHalfHalf(r) == r.w_ag = Rat(1, 2) /\ r.w_fi = Rat(1, 2)

AllocatedRows(key, sector) ==
    SelectSeq(comp_sect, LAMBDA r : r.Year = key.Year /\ r.Province = key.Province
                                    /\ r.Sector = sector)

\* C2: for every key whose AG_FISH real compensation is a (finite) amount, the
\* sector compensation table holds one AGRIC and one FISH row for the key and
\* their sum is that amount, before and after the pre-join deduplication.
C2_AllocationConserved ==
    AfterAlloc =>
        \A i \in DOMAIN comp_agfish :
            IsFinite(comp_agfish[i].Comp_AF_Real) =>
                LET ag == AllocatedRows(comp_agfish[i], "AGRIC")
                    fi == AllocatedRows(comp_agfish[i], "FISH")
                IN  /\ Len(ag) = 1 /\ Len(fi) = 1
                    /\ Add(ag[1].Comp_Real_Sector, fi[1].Comp_Real_Sector)
                         = comp_agfish[i].Comp_AF_Real

\* C2 witness: after the deduplication, a key split 50/50 by the fallback and
\* a key split by GDP weights, both with a positive amount
C2_Witness ==
    /\ pc = "join"
    /\ \E i, j \in DOMAIN alloc :
        /\ IsHalfHalf(alloc[i]) /\ IsFinite(alloc[i].Comp_AF_Real) /\ alloc[i].Comp_AF_Real.n > 0
        /\ alloc[j].w_ag = Rat(3, 4) /\ IsFinite(alloc[j].Comp_AF_Real)
        /\ alloc[j].Comp_AF_Real.n > 0

\* the deflation identity of one row
DeflationOK(nominal, cpi_index, real) ==
    /\ (IsFinite(nominal) /\ IsFinite(cpi_index) /\ cpi_index.n # 0)
          => real = Rat(100 * nominal.n * cpi_index.d, nominal.d * cpi_index.n)
    /\ (isna(cpi_index) \/ cpi_index = Num(0)) => isna(real)

\* C3 (as stated): every deflation (sector GDP 1975-1983, total GDP, annual
\* compensation) gives nominal / (CPI_index/100) where both are present and
\* CPI_index is not 0, and a missing value where CPI_index is null or 0.
C3_DeflationIdentity ==
    /\ \A i \in DOMAIN comp_annual :
          DeflationOK(comp_annual[i].Comp_Nominal, comp_annual[i].CPI_index,
                      comp_annual[i].Comp_Real)
    /\ pc \notin {"cpi"} =>
          /\ \A k \in DOMAIN sector_order :
                LET m == LeftJoin(extract_nominal_block(gdp80, SECTORS[sector_order[k]],
                                                        1975, 1983),
                                  cpi_final, YP, "CPI_index")
                    pre == sector_pre(gdp80, cpi_final, sector_order[k])
                IN  \A i \in DOMAIN m :
                        DeflationOK(m[i].GDP_Nominal, m[i].CPI_index, pre[i].GDP_Real)
          /\ LET m == LeftJoin(totgdp80, cpi_final, YP, "CPI_index")
                 d == deflate_total(totgdp80, cpi_final)
             IN  \A i \in DOMAIN m :
                     DeflationOK(m[i].VALUE_DOLLARS, m[i].CPI_index, d[i].GDP_Real_Total)

Unique(rows, on) ==
    \A i, j \in DOMAIN rows : (\A c \in on : rows[i][c] = rows[j][c]) => i = j

\* C4: once the pre-join deduplication has run, no two rows of the sector GDP,
\* sector compensation, total GDP or total compensation table share a key,
\* and the run is never aborted by the duplicate-key assertions.
C4_UniqueAfterDedup ==
    /\ (AfterDedup \/ (pc = "failed" /\ written = {}))
          => /\ Unique(gdp_sectors, YPS) /\ Unique(comp_sect, YPS)
             /\ Unique(gdp_total, YP) /\ Unique(comp_total, YP)
    /\ ~(pc = "failed" /\ error = "AssertionError" /\ written = {})

\* C4 witness: the deduplication has run on a sector GDP table that held two
\* rows for one key
C4_Witness ==
    /\ pc = "join"
    /\ \E i, j \in DOMAIN gdp80 :
          /\ i < j /\ gdp80[i].Year = gdp80[j].Year /\ gdp80[i].Province = gdp80[j].Province
          /\ gdp80[i].Industry = gdp80[j].Industry /\ gdp80[i].Prices = Current80
          /\ gdp80[j].Prices = Current80 /\ gdp80[i].Year <= 1983

AfterTotal == pc \in {"comp", "alloc", "emp_pop", "dedup", "join", "events", "save", "diag", "done"}
              \/ (pc = "failed" /\ error = "AssertionError")
AfterJoin == pc \in {"events", "save", "diag", "done"} \/ (pc = "failed" /\ written # {})

\* C5 (as stated): the sector panel has exactly one row per row of its
\* anchor, the deduplicated sector GDP table restricted to 1975-1995.
C5_SectorPanelRowCount ==
    AfterJoin =>
        /\ Len(panel_df) = Len(SelectSeq(gdp_sectors, in_domain))
        /\ Unique(panel_df, YPS)

\* C6 (as stated): the province panel that is written has at most one row
\* per (Year, Province).
C6_ProvincePanelOneRowPerKey ==
    AfterJoin => Unique(prov_df, YP)

\* the rows of the 1990s table that build_total_gdp_81_95 reads as
\* constant/chained and as current dollars for one key
RealRows90(y, p) ==
    SelectSeq(totgdp90, LAMBDA r : r.Year = y /\ r.Province = p /\ r.Estimates = GdpConcept
                                   /\ is_real_label(r.Prices))
CurrRows90(y, p) ==
    SelectSeq(totgdp90, LAMBDA r : r.Year = y /\ r.Province = p /\ r.Estimates = GdpConcept
                                   /\ is_current_label(r.Prices))

\* C7: right after the total-GDP splice, a key of 1981-1995 that has both a
\* constant/chained row and a current-dollar row keeps one row, and it
\* carries the (first) constant/chained value unmodified.
C7_SplicePrefersReal ==
    (pc = "comp" /\ has_cols.prices90) =>
        \A y \in 1981..YearHi : \A p \in Range(sorted_geo) :
            (RealRows90(y, p) # <<>> /\ CurrRows90(y, p) # <<>>) =>
                LET kept == SelectSeq(gdp_total, LAMBDA r : r.Year = y /\ r.Province = p)
                IN  /\ Len(kept) = 1
                    /\ kept[1].GDP_Real_Total = RealRows90(y, p)[1].VALUE_DOLLARS

\* C7 witness: a key whose current-dollar row comes first in the file and
\* deflates to a value other than the constant-dollar one
C7_Witness ==
    /\ pc = "comp" /\ has_cols.prices90
    /\ \E i, j \in DOMAIN totgdp90 :
        /\ i < j /\ totgdp90[i].Year = totgdp90[j].Year
        /\ totgdp90[i].Province = totgdp90[j].Province /\ totgdp90[i].Year >= 1981
        /\ totgdp90[i].Estimates = GdpConcept /\ totgdp90[j].Estimates = GdpConcept
        /\ is_current_label(totgdp90[i].Prices) /\ is_real_label(totgdp90[j].Prices)
        /\ \E k \in DOMAIN cpi_final :
            /\ cpi_final[k].Year = totgdp90[i].Year
            /\ cpi_final[k].Province = totgdp90[i].Province
            /\ Deflate(totgdp90[i].VALUE_DOLLARS, cpi_final[k].CPI_index)
                 # totgdp90[j].VALUE_DOLLARS

\* C8 (as stated): whenever the total-GDP table lacks a key of the 9 x 21
\* grid, the completeness check prints the missing keys, every one of them.
C8_EveryMissingKeyReported ==
    AfterTotal =>
        LET missing == grid_codes \ {CodeYP(gdp_total[i]) : i \in DOMAIN gdp_total}
        IN  missing # {} =>
                /\ gdp_report.printed
                /\ \A c \in missing :
                      \E i \in DOMAIN gdp_report.rows : CodeYP(gdp_report.rows[i]) = c

\* C9 (as stated): a run that ends on a fatal check has written neither
\* panel artifact.
C9_NoArtifactOnFailure ==
    pc = "failed" => written = {}

\* the rows of the grid template merged with prov_df that lack
\* GDP_Real_Total or Population: <<key code, 0>> for a key with no panel
\* row, <<key code, i>> for panel row i
MissingGridRows ==
    {<<c, 0>> : c \in {g \in grid_codes : \A i \in DOMAIN prov_df : CodeYP(prov_df[i]) # g}}
    \cup {<<CodeYP(prov_df[i]), i>> :
             i \in {j \in DOMAIN prov_df : /\ CodeYP(prov_df[j]) \in grid_codes
                                           /\ (isna(prov_df[j].GDP_Real_Total)
                                               \/ isna(prov_df[j].Population))}}

\* the run ended on the province assertions, and missing Population is the
\* only thing they found
HaltedByMissingPopulation ==
    /\ pc = "failed" /\ miss_report.printed
    /\ \E i \in DOMAIN prov_df : isna(prov_df[i].Population)
    /\ \A i \in DOMAIN prov_df :
          /\ prov_df[i].Wpw_All.k \in {"num", "inf"} /\ prov_df[i].Wpw_All.n > 0
          /\ isna(prov_df[i].GDP_pc_real_1986) => isna(prov_df[i].Population)

\* C10 (as stated): a grid key whose GDP_Real_Total or Population is missing
\* is counted and reported, and does not halt the run.
C10_MissingnessNeverHalts ==
    /\ miss_report.printed => miss_report.count = Cardinality(MissingGridRows)
    /\ ~HaltedByMissingPopulation

\* C10 (amended): the missing grid rows are counted and the first 20 printed;
\* a key that is missing because the province panel has no row for it does
\* not halt the run, but a panel row whose Population is missing fails the
\* GDP_pc_real_1986 assertion that follows the report, which ends the run.
C10_MissingnessReportThenAssert ==
    miss_report.printed =>
        /\ miss_report.count = Cardinality(MissingGridRows)
        /\ Len(miss_report.rows) = (IF miss_report.count < 20 THEN miss_report.count ELSE 20)
        /\ \A i \in DOMAIN miss_report.rows :
              \E m \in MissingGridRows : m[1] = CodeYP(miss_report.rows[i])
        /\ (\A i \in DOMAIN prov_df : /\ notna(prov_df[i].GDP_pc_real_1986)
                                      /\ prov_df[i].Wpw_All.k \in {"num", "inf"}
                                      /\ prov_df[i].Wpw_All.n > 0)
              => pc = "done"
        /\ (\E i \in DOMAIN prov_df : isna(prov_df[i].Population)) => pc = "failed"

\* C10 witness: a run that reported missing grid keys and went on to the end
C10_Witness ==
    /\ pc = "done" /\ miss_report.printed /\ miss_report.count > 20
    /\ prov_df # <<>>

\* the run ended on the province assertions, and rows with Employment 0 are
\* the only thing they found
HaltedByZeroEmployment ==
    /\ pc = "failed" /\ miss_report.printed
    /\ \E i \in DOMAIN prov_df : prov_df[i].Employment = Num(0)
    /\ \A i \in DOMAIN prov_df :
          /\ notna(prov_df[i].GDP_pc_real_1986)
          /\ ~(prov_df[i].Wpw_All.k \in {"num", "inf"} /\ prov_df[i].Wpw_All.n > 0)
                => prov_df[i].Employment = Num(0)

\* C11 (as stated): in either panel a row whose Employment is exactly 0 has a
\* missing Wpw_All (not an infinity), and the run does not fail because of
\* that row.
C11_ZeroEmploymentNotFatal ==
    /\ AfterJoin =>
          /\ \A i \in DOMAIN panel_df :
                panel_df[i].Employment = Num(0) => isna(panel_df[i].Wpw_All)
          /\ \A i \in DOMAIN prov_df :
                prov_df[i].Employment = Num(0) => isna(prov_df[i].Wpw_All)
    /\ ~HaltedByZeroEmployment

AfterEvents == pc \in {"save", "diag", "done"} \/ (pc = "failed" /\ written # {})

\* the column name of offset k of an event, spelled digit by digit
Digit == << "0", "1", "2", "3", "4", "5", "6", "7" >>
IndicatorName(name, k) ==
    IF k < 0 THEN name \o "_bin_m" \o Digit[1 - k] ELSE name \o "_bin_p" \o Digit[k + 1]

\* the indicator columns of an event that a row holds, among the names of
\* the offsets -7..7
IndicatorsOf(r, name) == {k \in -7..7 : IndicatorName(name, k) \in DOMAIN r}

EventColumnsOK(r, e) ==
    /\ IndicatorsOf(r, e.name) = {k \in (0 - e.window)..e.window : k # -1}
    /\ Cardinality({IndicatorName(e.name, k) : k \in IndicatorsOf(r, e.name)}) = 2 * e.window
    /\ Cardinality({k \in IndicatorsOf(r, e.name) : r[IndicatorName(e.name, k)] = 1}) <= 1
    /\ \A k \in IndicatorsOf(r, e.name) :
          /\ r[IndicatorName(e.name, k)] \in {0, 1}
          /\ r[IndicatorName(e.name, k)] = 1
                => (r.Province \in e.treated /\ r.Year - e.year = k)

\* C12: once the event columns are added, every row of both panels holds,
\* for each event, exactly 2 x window indicator columns, one per offset of
\* [-window, window] except -1; at most one of them is 1, and the one of
\* offset k is 1 only if the province is treated and Year - event year = k.
C12_EventIndicators ==
    AfterEvents =>
        \A n \in DOMAIN EVENTS :
            /\ \A i \in DOMAIN prov_df : EventColumnsOK(prov_df[i], EVENTS[n])
            /\ \A i \in DOMAIN panel_df_sector : EventColumnsOK(panel_df_sector[i], EVENTS[n])

\* C12 witness: a treated row inside its window (Ontario 1984, five years
\* before CUSFTA) and a treated row at the omitted offset -1 (Alberta 1979)
C12_Witness ==
    /\ pc = "save"
    /\ \E i, j \in DOMAIN prov_df :
        /\ prov_df[i].Province = "Ontario" /\ prov_df[i].Year = 1984
        /\ prov_df[i]["CUSFTA_bin_m5"] = 1
        /\ prov_df[j].Province = "Alberta" /\ prov_df[j].Year = 1979
        /\ prov_df[j]["NEP_treated"] = 1 /\ prov_df[j]["NEP_rel"] = Num(-1)
        /\ \A k \in IndicatorsOf(prov_df[j], "NEP") : prov_df[j][IndicatorName("NEP", k)] = 0
    /\ \E i \in DOMAIN panel_df_sector : panel_df_sector[i]["CUSFTA_bin_m5"] = 1

\* gdp_sectors is the spliced series as build_sector left it
SectorsAsBuilt == pc \in {"gdp_total", "comp", "alloc", "emp_pop", "dedup"}

\* C13: in the spliced sector GDP series, the rows deflated from the early
\* vintage have Year in 1975-1983, the rows taken from the later vintage have
\* Year in 1984-1995, and no (Year, Province, Sector) key is in both.
C13_VintagesPartitionYears ==
    SectorsAsBuilt =>
        /\ \A k \in DOMAIN sector_order :
              LET pre == sector_pre(gdp80, cpi_final, sector_order[k])
                  post == sector_post(gdp90, sector_order[k])
              IN  /\ \A i \in DOMAIN pre : pre[i].Year >= 1975 /\ pre[i].Year <= 1983
                  /\ \A i \in DOMAIN post : post[i].Year >= 1984 /\ post[i].Year <= 1995
                  /\ \A i \in DOMAIN pre : \A j \in DOMAIN post :
                        ~(pre[i].Year = post[j].Year /\ pre[i].Province = post[j].Province)
        /\ \A n \in DOMAIN gdp_sectors :
              LET r == gdp_sectors[n]
                  from(part) == \E i \in DOMAIN part :
                                    /\ part[i].Year = r.Year /\ part[i].Province = r.Province
                                    /\ part[i].GDP_Real = r.GDP_Real
              IN  IF r.Year <= 1983
                  THEN r.Year >= 1975 /\ from(sector_pre(gdp80, cpi_final, r.Sector))
                  ELSE r.Year <= 1995 /\ from(sector_post(gdp90, r.Sector))

\* C13 witness: the series is built from files in which the early vintage
\* holds a current-dollar row of 1984 for a key the later vintage covers, and
\* the later vintage a constant-dollar row of 1983
C13_Witness ==
    /\ pc = "gdp_total"
    /\ \E i \in DOMAIN gdp80, j \in DOMAIN gdp90 :
          /\ gdp80[i].Year = 1984 /\ gdp80[i].Prices = Current80
          /\ gdp90[j].Year = 1984 /\ gdp90[j].Prices = Constant86
          /\ gdp80[i].Province = gdp90[j].Province /\ gdp80[i].Industry = gdp90[j].Industry
    /\ \E j \in DOMAIN gdp90 : gdp90[j].Year = 1983 /\ gdp90[j].Prices = Constant86
    /\ \E n \in DOMAIN gdp_sectors : gdp_sectors[n].Year = 1983

\* the nine admitted provinces
AdmittedProvinces ==
    { "Alberta", "British Columbia", "Manitoba", "New Brunswick",
      "Newfoundland And Labrador", "Nova Scotia", "Ontario", "Quebec", "Saskatchewan" }

\* the admitted province a raw label stands for once trimmed, title-cased and
\* alias-mapped, "" for a label of another geography
AdmittedName(label) ==
    IF label \in AdmittedProvinces THEN label
    ELSE IF label \in {"alberta", "ALBERTA", "  Alberta "} THEN "Alberta"
    ELSE IF label \in {"british columbia", "B.C.", "b.c."} THEN "British Columbia"
    ELSE IF label \in {"Newfoundland and Labrador", "Nfld.", "NFLD. "}
         THEN "Newfoundland And Labrador"
    ELSE IF label \in {" ontario", "ONTARIO", "Ontario  "} THEN "Ontario"
    ELSE ""

\* the rows of a file that stand for an admitted province, in file order,
\* with the province name in place of the label
AdmittedRows(rows) ==
    LET kept == SelectSeq(rows, LAMBDA r : AdmittedName(r.GEO) # "")
    IN  [i \in DOMAIN kept |->
            [c \in (DOMAIN kept[i] \ {"GEO"}) \cup {"Province"} |->
                IF c = "Province" THEN AdmittedName(kept[i].GEO) ELSE kept[i][c]]]

OnlyAdmitted(rows) == \A i \in DOMAIN rows : rows[i].Province \in AdmittedProvinces

\* C14: the tables read through apply_geo_filter hold exactly the file rows
\* whose trimmed, title-cased, alias-mapped label is an admitted province, and
\* every province-keyed table that enters a join (CPI, sector and total GDP,
\* compensation, employment, population) and both panels hold admitted
\* provinces only.
C14_OnlyAdmittedProvinces ==
    /\ pc = "cpi" =>
          /\ gdp80 = AdmittedRows(files.gdp80) /\ gdp90 = AdmittedRows(files.gdp90)
          /\ totgdp80 = AdmittedRows(files.totgdp80)
          /\ totgdp90 = AdmittedRows(files.totgdp90)
          /\ comp = AdmittedRows(files.comp)
          /\ lfs = AdmittedRows(files.lfs) /\ pop = AdmittedRows(files.pop)
    /\ OnlyAdmitted(cpi_final) /\ OnlyAdmitted(gdp_sectors) /\ OnlyAdmitted(gdp_total)
    /\ OnlyAdmitted(comp_sect) /\ OnlyAdmitted(comp_total)
    /\ OnlyAdmitted(lfs_agg) /\ OnlyAdmitted(pop)
    /\ OnlyAdmitted(panel_df) /\ OnlyAdmitted(prov_df)

\* C14 witness: the panels are built from files that spell British Columbia
\* "b.c." and hold a row of Prince Edward Island under its alias
C14_Witness ==
    /\ pc = "save"
    /\ \E i, j \in DOMAIN files.pop :
          files.pop[i].GEO = "b.c." /\ files.pop[j].GEO = "P.E.I."
    /\ \E i \in DOMAIN files.cpi : files.cpi[i].GEO = "P.E.I."
    /\ Len(pop) < Len(files.pop)
    /\ \E i \in DOMAIN prov_df :
          prov_df[i].Province = "British Columbia" /\ notna(prov_df[i].Population)

ZeroOrMissing(v) == isna(v) \/ v = Num(0)

\* C15: right after the allocation, every key with AG_FISH compensation whose
\* AGRIC and FISH real GDP are both zero or missing (the key may have no row
\* in the sector GDP table at all) has w_ag = w_fi = 0.5 exactly.
C15_BothZeroOrMissingGivesHalf ==
    pc = "emp_pop" =>
        \A i \in DOMAIN alloc :
            (ZeroOrMissing(GdpFigure(alloc[i], "AGRIC"))
             /\ ZeroOrMissing(GdpFigure(alloc[i], "FISH"))) => IsHalfHalf(alloc[i])

\* C15 witness: a key with a positive AG_FISH amount and no AGRIC or FISH row
\* in the sector GDP table is split 0.5/0.5
C15_Witness ==
    /\ pc = "emp_pop"
    /\ \E i \in DOMAIN alloc :
        /\ \A n \in DOMAIN gdp_sectors :
              ~(gdp_sectors[n].Year = alloc[i].Year
                /\ gdp_sectors[n].Province = alloc[i].Province
                /\ gdp_sectors[n].Sector \in {"AGRIC", "FISH"})
        /\ IsFinite(alloc[i].Comp_AF_Real) /\ alloc[i].Comp_AF_Real.n > 0
        /\ IsHalfHalf(alloc[i])

\* the value the deduplicated sector GDP table holds for a sector of a key,
\* 0 when it has no row (the table has one row per key at most)
FinalGdp(key, sector) ==
    LET vs == SelectSeq(gdp_sectors, LAMBDA r : r.Year = key.Year /\ r.Province = key.Province
                                                /\ r.Sector = sector)
    IN  IF vs = <<>> THEN Num(0) ELSE vs[1].GDP_Real

\* C16 (as stated): the weights of every key are the ones the final,
\* deduplicated sector GDP table gives: GDP_AGRIC/(GDP_AGRIC+GDP_FISH) and
\* GDP_FISH/(GDP_AGRIC+GDP_FISH) of its values when their sum is positive,
\* 0.5/0.5 otherwise.
C16_WeightsFromDedupTable ==
    AfterDedup =>
        \A i \in DOMAIN alloc :
            LET a == FinalGdp(alloc[i], "AGRIC")
                f == FinalGdp(alloc[i], "FISH")
            IN  IF IsFinite(a) /\ IsFinite(f) /\ Add(a, f).n > 0
                THEN /\ alloc[i].w_ag = Rat(a.n * f.d, a.n * f.d + f.n * a.d)
                     /\ alloc[i].w_fi = Rat(f.n * a.d, a.n * f.d + f.n * a.d)
                ELSE (IsFinite(a) /\ IsFinite(f)) => IsHalfHalf(alloc[i])

AfterEmpPop == pc \in {"dedup", "join", "events", "save", "diag", "done"}
               \/ (pc = "failed" /\ error = "AssertionError")

\* the backfill of one table did for province p what the claim says
BackfillOK(before, after, p, f) ==
    LET has(rows, y) == \E i \in DOMAIN rows : rows[i].Year = y /\ rows[i].Province = p
        at(rows, y) == SelectSeq(rows, LAMBDA r : r.Year = y /\ r.Province = p)
    IN  /\ (has(before, 1976) /\ ~has(before, 1975))
              => /\ has(after, 1975)
                 /\ \A i \in DOMAIN at(after, 1975) :
                       \E j \in DOMAIN at(after, 1976) :
                           at(after, 1975)[i][f] = at(after, 1976)[j][f]
        /\ has(before, 1975) => Len(at(after, 1975)) = Len(at(before, 1975))

\* C17 (as stated): after the 1976-to-1975 backfill of employment and of
\* population, every province with a 1976 value and no 1975 value has a 1975
\* row equal to its 1976 value, and a province with a 1975 value keeps it.
C17_BackfillPerProvince ==
    AfterEmpPop =>
        \A p \in AdmittedProvinces :
            /\ BackfillOK(GroupAgg(lfs, YP, "Employment", Mean), lfs_agg, p, "Employment")
            /\ BackfillOK(AdmittedRows(files.pop), pop, p, "Population")

\* a key with one row before the deduplication has the same value after it
SingletonsKept(before, after, on, f) ==
    \A i \in DOMAIN before :
        (\A j \in DOMAIN before : (\A c \in on : before[j][c] = before[i][c]) => j = i)
            => \E n \in DOMAIN after :
                  /\ \A c \in on : after[n][c] = before[i][c]
                  /\ after[n][f] = before[i][f]

\* C18 (as stated): the deduplication by sum leaves the value of every key
\* that had exactly one row as it was, in each of the four tables, a missing
\* value included.
C18_DedupKeepsSingletons ==
    AfterDedup =>
        /\ SingletonsKept(build_gdp_sectors(gdp80, gdp90, cpi_final), gdp_sectors,
                          YPS, "GDP_Real")
        /\ SingletonsKept(build_gdp_total(totgdp80, totgdp90, has_cols.prices90, cpi_final),
                          gdp_total, YP, "GDP_Real_Total")
        /\ SingletonsKept(build_comp_total(comp_annual), comp_total, YP, "Comp_Real_Total")
        /\ SingletonsKept(build_comp_match(comp_annual) \o build_comp_ag(alloc)
                          \o build_comp_fi(alloc), comp_sect, YPS, "Comp_Real_Sector")

====
